---------------------------- MODULE Spec2Model ----------------------------
(***************************************************************************)
(* Model of vispy's freetype glyph loader (vispy/fonts/_freetype.py):      *)
(* the process-wide font cache _font_dict filled by _load_font, and        *)
(* _load_glyph, which rasterizes one character, stores the glyph in the    *)
(* caller's glyphs_dict and sweeps the dictionary to fill in kerning; and  *)
(* of the shader objects of vispy/oogl/shader.py.                          *)
(*                                                                         *)
(* Spec          calls of _load_font / _load_glyph made one after another. *)
(* SpecConc      threads running _load_font statement by statement.        *)
(* SpecGlyphConc threads running _load_glyph operation by operation.       *)
(* SpecOrder     one set of characters inserted in two orders.             *)
(* SpecBitmap    the buffer -> bitmap conversion of _load_glyph on drawn   *)
(*               inputs.                                                   *)
(* SpecKey       the cache keys built for two drawn descriptors.           *)
(* SpecShader    set_source and _enable on two BaseShader objects.         *)
(* SpecErrors    parse_shader_errors on a drawn error buffer and source.   *)
(***************************************************************************)
EXTENDS Integers, Sequences, FiniteSets, TLC

VARIABLES
    _font_dict,       \* module global: key string -> Face object (heap index)
    faces,            \* heap of Face objects, in order of construction
    glyphs_dicts,     \* the callers' glyph dictionaries: id -> (char -> glyph)
    pc, frame,        \* SpecConc: each thread's position in _load_font, its locals
    ncalls,           \* number of calls started so far
    last,             \* what the most recent completed call did
    find_font_calls,  \* per descriptor: how often find_font ran
    Face_calls,       \* per descriptor: how often the Face constructor ran
    returned,         \* per descriptor: the Face objects _load_font returned
    fonts_used,       \* per glyph dictionary: the descriptors it was called with
    bm_in, bm_out,    \* SpecBitmap: the drawn native bitmap, the array built
    k_in, k_out,      \* SpecKey: two descriptors drawn, the keys built for them
    plan,             \* SpecOrder: the two insertion orders still to be run
    gpc, gframe,      \* SpecGlyphConc: each thread's position in _load_glyph, its locals
    wcount,           \* SpecGlyphConc: assignments made to each kerning entry
    py3,              \* SpecGlyphConc: dict.items() is a view (Python 3) or a list (2)
    shaders, sh_last, \* SpecShader: the BaseShader objects, the last call made
    pe_in, pe_out     \* SpecErrors: the errors and source drawn, the lines printed

\* the variables of the specifications that do not run the glyph loader's
\* sequential calls
aux == <<k_in, k_out, plan, gpc, gframe, wcount, py3, shaders, sh_last,
         pe_in, pe_out>>

vars == <<_font_dict, faces, glyphs_dicts, pc, frame, ncalls, last,
          find_font_calls, Face_calls, returned, fonts_used, bm_in, bm_out,
          aux>>

(***************************************************************************)
(* Bounds                                                                  *)
(***************************************************************************)
MaxCalls == 3

NThreads == 2

MaxBuf == 4

MaxRows == 2

MaxWidth == 3

None == "None"

EmptyMap == [x \in {} |-> 0]

Min(a, b) == IF a < b THEN a ELSE b

(***************************************************************************)
(* The inputs: font descriptors f = dict(face, size, bold, italic),        *)
(* characters and glyph dictionaries.  Face names are strings, written as  *)
(* sequences of characters.                                                *)
(***************************************************************************)
fA == [face |-> <<"a">>, size |-> 12, bold |-> FALSE, italic |-> FALSE]

fB == [face |-> <<"b">>, size |-> 8, bold |-> TRUE, italic |-> FALSE]

fN == [face |-> <<"n">>, size |-> 12, bold |-> FALSE, italic |-> FALSE]

fX == [face |-> <<"x">>, size |-> 12, bold |-> FALSE, italic |-> TRUE]

Descriptors == {fA, fB, fN, fX}

Chars == {"A", "V", "T"}

Dicts == {1, 2}

(***************************************************************************)
(* The collaborators: the font resolver find_font and the FreeType Face.   *)
(* Both are deterministic.  find_font knows no font "n"; the file found    *)
(* for "x" is not a font, so Face() raises on it; font b.ttf has no glyph  *)
(* for "T", so load_char raises for it.                                    *)
(***************************************************************************)
find_font(face, size, bold, italic) ==
    CASE face = <<"a">> -> "a.ttf"
      [] face = <<"b">> -> "b.ttf"
      [] face = <<"x">> -> "x.bin"
      [] OTHER -> None

FaceOpens(fname) == fname \in {"a.ttf", "b.ttf"}

\* Face(fname): a fresh object, no size set, empty glyph slot
Face(fname) == [fname |-> fname, char_size |-> 0, glyph |-> None]

\* face.set_char_size(size)
set_char_size(face, size) == [face EXCEPT !.char_size = size]

\* Kerning of the ordered pair (left, right) in font units per 64 units of
\* character size; direction-sensitive, zero for some pairs.
KernUnits(fname, left, right) ==
    LET n == CASE <<left, right>> = <<"A", "V">> -> -5
               [] <<left, right>> = <<"V", "A">> -> -3
               [] <<left, right>> = <<"T", "A">> -> -7
               [] <<left, right>> = <<"A", "T">> -> -2
               [] <<left, right>> = <<"V", "V">> -> 1
               [] <<left, right>> = <<"T", "T">> -> 2
               [] OTHER -> 0
    IN  IF fname = "a.ttf" THEN n ELSE 2 * n + (IF n = 0 THEN 0 ELSE 1)

\* face.get_kerning(left, right).x, in 26.6 fixed point, at the face's
\* current character size
get_kerning(face, left, right) ==
    (KernUnits(face.fname, left, right) * face.char_size) \div 64

\* The native glyph FreeType renders for a character: rows of pitch samples,
\* of which the first width are the glyph; the rest is padding.
NativeGlyph(fname, char_size, char) ==
    LET k == IF fname = "a.ttf" THEN 0 ELSE 100
    IN  CASE char = "A" ->
               [char |-> char, rows |-> 2, width |-> 2,
                buffer |-> <<k + 1, k + 2, 0, k + 3, k + 4, 0>>,
                bitmap_left |-> 1, bitmap_top |-> 9,
                advance_x |-> char_size - 32]
          [] char = "V" ->
               [char |-> char, rows |-> 1, width |-> 1,
                buffer |-> <<k + 5>>,
                bitmap_left |-> 0, bitmap_top |-> 8,
                advance_x |-> char_size - 96]
          [] char = "T" ->
               [char |-> char, rows |-> 2, width |-> 1,
                buffer |-> <<k + 6, 0, 0, k + 7, 0, 0>>,
                bitmap_left |-> -1, bitmap_top |-> 9,
                advance_x |-> char_size - 160]

HasGlyph(fname, char) == ~(fname = "b.ttf" /\ char = "T")

\* face.load_char(char, flags): fills the face's single glyph slot
load_char(face, char) ==
    [face EXCEPT !.glyph = NativeGlyph(face.fname, face.char_size, char)]

(***************************************************************************)
(* Conversions                                                             *)
(***************************************************************************)
RECURSIVE StrNat(_)
\* '%s' % n for a natural number n: its decimal digits
StrNat(n) ==
    LET d == <<"0", "1", "2", "3", "4", "5", "6", "7", "8", "9">>
    IN  IF n < 10 THEN <<d[n + 1]>> ELSE StrNat(n \div 10) \o <<d[(n % 10) + 1]>>

\* '%s' % n for an integer
StrInt(n) == IF n < 0 THEN <<"-">> \o StrNat(-n) ELSE StrNat(n)

\* '%s' % b for a bool
StrBool(b) == IF b THEN <<"T", "r", "u", "e">> ELSE <<"F", "a", "l", "s", "e">>

\* key = '%s-%s-%s-%s' % (face, size, bold, italic)
Key(face, size, bold, italic) ==
    face \o <<"-">> \o StrInt(size) \o <<"-">> \o StrBool(bold)
         \o <<"-">> \o StrBool(italic)

KeyOf(f) == Key(f.face, f.size, f.bold, f.italic)

\* x / 64.0: exact in floating point, kept as (whole part, 64ths)
Div64(x) == <<x \div 64, x % 64>>

\* a cache that is never hit: every call resolves and constructs again
CacheHit_never(fd, key) == FALSE

\* line 29: key in _font_dict
CacheHit(fd, key) == key \in DOMAIN fd

\* Loads(f): find_font finds a file for f and Face() opens it
Loads(f) ==
    /\ find_font(f.face, f.size, f.bold, f.italic) # None
    /\ FaceOpens(find_font(f.face, f.size, f.bold, f.italic))

\* _load_font reserving the key before it resolves the font: a failure
\* leaves the key behind, mapped to no Face (heap index 0)
_load_font_store_first(fd, fs, f) ==
    LET key == KeyOf(f)
        fname == find_font(f.face, f.size, f.bold, f.italic)
        base == [font_dict |-> fd, faces |-> fs, raised |-> FALSE,
                 ret |-> 0, find_font_ran |-> FALSE, Face_ran |-> FALSE]
    IN  IF CacheHit(fd, key)
        THEN [base EXCEPT !.ret = fd[key]]
        ELSE IF fname = None
        THEN [base EXCEPT !.font_dict = (key :> 0) @@ fd,
                          !.raised = TRUE, !.find_font_ran = TRUE]
        ELSE IF ~FaceOpens(fname)
        THEN [base EXCEPT !.font_dict = (key :> 0) @@ fd,
                          !.raised = TRUE, !.find_font_ran = TRUE,
                          !.Face_ran = TRUE]
        ELSE [base EXCEPT !.font_dict = (key :> (Len(fs) + 1)) @@ fd,
                          !.faces = Append(fs, Face(fname)),
                          !.ret = Len(fs) + 1,
                          !.find_font_ran = TRUE, !.Face_ran = TRUE]

\* _load_font on a cache that holds one font: storing a new entry drops
\* the ones stored before
_load_font_evicting(fd, fs, f) ==
    LET key == KeyOf(f)
        fname == find_font(f.face, f.size, f.bold, f.italic)
        base == [font_dict |-> fd, faces |-> fs, raised |-> FALSE,
                 ret |-> 0, find_font_ran |-> FALSE, Face_ran |-> FALSE]
    IN  IF CacheHit(fd, key)
        THEN [base EXCEPT !.ret = fd[key]]
        ELSE IF fname = None
        THEN [base EXCEPT !.raised = TRUE, !.find_font_ran = TRUE]
        ELSE IF ~FaceOpens(fname)
        THEN [base EXCEPT !.raised = TRUE, !.find_font_ran = TRUE,
                          !.Face_ran = TRUE]
        ELSE [base EXCEPT !.font_dict = (key :> (Len(fs) + 1)),
                          !.faces = Append(fs, Face(fname)),
                          !.ret = Len(fs) + 1,
                          !.find_font_ran = TRUE, !.Face_ran = TRUE]

(***************************************************************************)
(* _load_font(face, size, bold, italic), run to completion on the cache    *)
(* fd and the heap fs.  The result tells what the call did: the cache and  *)
(* heap it leaves, whether it raised, the object returned, and whether     *)
(* find_font and Face() ran.                                               *)
(***************************************************************************)
_load_font(fd, fs, f) ==
    LET key == KeyOf(f)
        fname == find_font(f.face, f.size, f.bold, f.italic)
        base == [font_dict |-> fd, faces |-> fs, raised |-> FALSE,
                 ret |-> 0, find_font_ran |-> FALSE, Face_ran |-> FALSE]
    IN  IF CacheHit(fd, key)
        THEN [base EXCEPT !.ret = fd[key]]
        ELSE IF fname = None
        THEN [base EXCEPT !.raised = TRUE, !.find_font_ran = TRUE]
        ELSE IF ~FaceOpens(fname)
        THEN [base EXCEPT !.raised = TRUE, !.find_font_ran = TRUE,
                          !.Face_ran = TRUE]
        ELSE [base EXCEPT !.font_dict = (key :> (Len(fs) + 1)) @@ fd,
                          !.faces = Append(fs, Face(fname)),
                          !.ret = Len(fs) + 1,
                          !.find_font_ran = TRUE, !.Face_ran = TRUE]

\* the reshaped array stored without cutting the rows to width
Bitmap_no_truncate(buffer, height, width) ==
    LET size == Len(buffer)
        w0 == IF size > 0 THEN size \div height ELSE 0
    IN  IF size > 0 /\ height = 0
        THEN [raised |-> TRUE, shape |-> <<0, 0>>, rows |-> <<>>]
        ELSE IF height * w0 # size
        THEN [raised |-> TRUE, shape |-> <<0, 0>>, rows |-> <<>>]
        ELSE [raised |-> FALSE,
              shape |-> <<height, w0>>,
              rows |-> [r \in 1..height |->
                          [c \in 1..w0 |-> buffer[(r - 1) * w0 + c] % 256]]]

(***************************************************************************)
(* The bitmap array _load_glyph builds from the native buffer: the flat    *)
(* buffer reshaped to height rows of w0 samples, each row cut to its first *)
(* width samples, each sample cast to an unsigned byte.  A division by     *)
(* zero or a reshape that does not fit raises.                             *)
(***************************************************************************)
Bitmap(buffer, height, width) ==
    LET size == Len(buffer)
        w0 == IF size > 0 THEN size \div height ELSE 0
        cols == Min(width, w0)
    IN  IF size > 0 /\ height = 0
        THEN [raised |-> TRUE, shape |-> <<0, 0>>, rows |-> <<>>]
        ELSE IF height * w0 # size
        THEN [raised |-> TRUE, shape |-> <<0, 0>>, rows |-> <<>>]
        ELSE [raised |-> FALSE,
              shape |-> <<height, cols>>,
              rows |-> [r \in 1..height |->
                          [c \in 1..cols |-> buffer[(r - 1) * w0 + c] % 256]]]

\* a sweep that stores no entry for a pair the face reports zero kerning for
KerningSweep_skip_zero(gd, face, char) ==
    [c \in DOMAIN gd |->
        IF c = char
        THEN [gd[c] EXCEPT !.kerning =
                 [o \in {x \in DOMAIN gd : get_kerning(face, x, char) # 0}
                     |-> Div64(get_kerning(face, o, char))]
                 @@ gd[c].kerning]
        ELSE IF get_kerning(face, char, c) = 0 THEN gd[c]
        ELSE [gd[c] EXCEPT !.kerning =
                 (char :> Div64(get_kerning(face, char, c))) @@ gd[c].kerning]]

\* a sweep with the two directions exchanged
KerningSweep_swapped(gd, face, char) ==
    [c \in DOMAIN gd |->
        IF c = char
        THEN [gd[c] EXCEPT !.kerning =
                 [o \in DOMAIN gd |-> Div64(get_kerning(face, char, o))]
                 @@ gd[c].kerning]
        ELSE [gd[c] EXCEPT !.kerning =
                 (char :> Div64(get_kerning(face, c, char))) @@ gd[c].kerning]]

\* a sweep that fills in the new glyph's kerning map only
KerningSweep_one_way(gd, face, char) ==
    [c \in DOMAIN gd |->
        IF c = char
        THEN [gd[c] EXCEPT !.kerning =
                 [o \in DOMAIN gd |-> Div64(get_kerning(face, o, char))]
                 @@ gd[c].kerning]
        ELSE gd[c]]

(***************************************************************************)
(* The kerning loop of _load_glyph over glyphs_dict.items(), glyphs_dict   *)
(* already holding the new glyph under char.  Every pass writes            *)
(* glyph['kerning'][other_char] and other_glyph['kerning'][char]; the      *)
(* passes write different entries, except that the pass over char itself   *)
(* writes glyph['kerning'][char] twice, both times with the same value, so *)
(* the order of the passes does not show in the result.                    *)
(***************************************************************************)
KerningSweep(gd, face, char) ==
    [c \in DOMAIN gd |->
        IF c = char
        THEN [gd[c] EXCEPT !.kerning =
                 [o \in DOMAIN gd |-> Div64(get_kerning(face, o, char))]
                 @@ gd[c].kerning]
        ELSE [gd[c] EXCEPT !.kerning =
                 (char :> Div64(get_kerning(face, char, c))) @@ gd[c].kerning]]

\* how often the loop assigns each entry <<x, y>>, glyphs_dict[x]['kerning'][y]
KerningWrites(gd, char) ==
    [e \in {<<char, o>> : o \in DOMAIN gd} \cup {<<o, char>> : o \in DOMAIN gd}
        |-> IF e = <<char, char>> THEN 2 ELSE 1]

\* line 39: FT_LOAD_RENDER | FT_LOAD_NO_HINTING | FT_LOAD_NO_AUTOHINT, the
\* flag word as the set of the flags set in it
freetype_flags == {"FT_LOAD_RENDER", "FT_LOAD_NO_HINTING", "FT_LOAD_NO_AUTOHINT"}

\* glyphs_dict.items(): the keys in the dictionary's order
items(gd) == SelectSeq(<<"A", "V", "T">>, LAMBDA c : c \in DOMAIN gd)

RECURSIVE KerningCallsOf(_, _)
\* the get_kerning calls of the loop's passes over the characters of order
KerningCallsOf(order, char) ==
    IF order = <<>> THEN <<>>
    ELSE <<[op |-> "get_kerning", left |-> Head(order), right |-> char],
           [op |-> "get_kerning", left |-> char, right |-> Head(order)]>>
         \o KerningCallsOf(Tail(order), char)

\* lines 60-64: the face operations of the kerning loop
KerningCalls(gd, char) == KerningCallsOf(items(gd), char)

\* _load_glyph storing a glyph under char before load_char has produced it
_load_glyph_store_first(fd, fs, gd, f, char) ==
    LET lf == _load_font(fd, fs, f)
        base == [font_dict |-> lf.font_dict, faces |-> lf.faces,
                 glyphs_dict |-> gd, raised |-> TRUE, lf |-> lf,
                 writes |-> EmptyMap, ops |-> <<>>]
    IN  IF lf.raised THEN base
        ELSE
        LET id == lf.ret
            sized == set_char_size(lf.faces[id], f.size * 64)
        IN  IF ~HasGlyph(sized.fname, char)
            THEN [base EXCEPT !.faces = [lf.faces EXCEPT ![id] = sized],
                              !.glyphs_dict =
                                  (char :> [char |-> char, kerning |-> EmptyMap])
                                  @@ gd]
            ELSE
            LET face == set_char_size(load_char(sized, char), f.size * 64)
                slot == face.glyph
                bitmap == Bitmap(slot.buffer, slot.rows, slot.width)
                glyph == [char |-> char,
                          offset |-> <<slot.bitmap_left, slot.bitmap_top>>,
                          bitmap |-> [shape |-> bitmap.shape,
                                      rows |-> bitmap.rows],
                          advance |-> Div64(slot.advance_x),
                          kerning |-> EmptyMap]
                stored == (char :> glyph) @@ gd
            IN  IF bitmap.raised
                THEN [base EXCEPT !.faces = [lf.faces EXCEPT ![id] =
                                                load_char(sized, char)]]
                ELSE [base EXCEPT !.raised = FALSE,
                                  !.faces = [lf.faces EXCEPT ![id] = face],
                                  !.glyphs_dict = KerningSweep(stored, face, char),
                                  !.writes = KerningWrites(stored, char)]

\* _load_glyph setting the character size once, before load_char only
_load_glyph_one_size(fd, fs, gd, f, char) ==
    LET lf == _load_font(fd, fs, f)
        base == [font_dict |-> lf.font_dict, faces |-> lf.faces,
                 glyphs_dict |-> gd, raised |-> TRUE, lf |-> lf,
                 writes |-> EmptyMap, ops |-> <<>>]
    IN  IF lf.raised THEN base
        ELSE
        LET id == lf.ret
            sized == set_char_size(lf.faces[id], f.size * 64)
            ops43 == <<[op |-> "set_char_size", size |-> f.size * 64],
                       [op |-> "load_char", char |-> char,
                        flags |-> freetype_flags]>>
        IN  IF ~HasGlyph(sized.fname, char)
            THEN [base EXCEPT !.faces = [lf.faces EXCEPT ![id] = sized],
                              !.ops = ops43]
            ELSE
            LET face == load_char(sized, char)
                slot == face.glyph
                bitmap == Bitmap(slot.buffer, slot.rows, slot.width)
                glyph == [char |-> char,
                          offset |-> <<slot.bitmap_left, slot.bitmap_top>>,
                          bitmap |-> [shape |-> bitmap.shape,
                                      rows |-> bitmap.rows],
                          advance |-> Div64(slot.advance_x),
                          kerning |-> EmptyMap]
                stored == (char :> glyph) @@ gd
                ops59 == ops43
            IN  IF bitmap.raised
                THEN [base EXCEPT !.faces = [lf.faces EXCEPT ![id] =
                                                load_char(sized, char)],
                                  !.ops = ops43]
                ELSE [base EXCEPT !.raised = FALSE,
                                  !.faces = [lf.faces EXCEPT ![id] = face],
                                  !.glyphs_dict = KerningSweep(stored, face, char),
                                  !.writes = KerningWrites(stored, char),
                                  !.ops = ops59 \o KerningCalls(stored, char)]

(***************************************************************************)
(* _load_glyph(f, char, glyphs_dict), run to completion on the cache fd,   *)
(* the heap fs and the dictionary gd.  An exception leaves at the          *)
(* statement that raised: what ran before it stays done.                   *)
(***************************************************************************)
_load_glyph(fd, fs, gd, f, char) ==
    LET lf == _load_font(fd, fs, f)
        base == [font_dict |-> lf.font_dict, faces |-> lf.faces,
                 glyphs_dict |-> gd, raised |-> TRUE, lf |-> lf,
                 writes |-> EmptyMap, ops |-> <<>>]
    IN  IF lf.raised THEN base
        ELSE
        LET id == lf.ret
            sized == set_char_size(lf.faces[id], f.size * 64)
            ops43 == <<[op |-> "set_char_size", size |-> f.size * 64],
                       [op |-> "load_char", char |-> char,
                        flags |-> freetype_flags]>>
        IN  IF ~HasGlyph(sized.fname, char)
            THEN [base EXCEPT !.faces = [lf.faces EXCEPT ![id] = sized],
                              !.ops = ops43]
            ELSE
            LET face == set_char_size(load_char(sized, char), f.size * 64)
                slot == face.glyph
                bitmap == Bitmap(slot.buffer, slot.rows, slot.width)
                glyph == [char |-> char,
                          offset |-> <<slot.bitmap_left, slot.bitmap_top>>,
                          bitmap |-> [shape |-> bitmap.shape,
                                      rows |-> bitmap.rows],
                          advance |-> Div64(slot.advance_x),
                          kerning |-> EmptyMap]
                stored == (char :> glyph) @@ gd
                ops59 == Append(ops43, [op |-> "set_char_size",
                                        size |-> f.size * 64])
            IN  IF bitmap.raised
                THEN [base EXCEPT !.faces = [lf.faces EXCEPT ![id] =
                                                load_char(sized, char)],
                                  !.ops = ops43]
                ELSE [base EXCEPT !.raised = FALSE,
                                  !.faces = [lf.faces EXCEPT ![id] = face],
                                  !.glyphs_dict = KerningSweep(stored, face, char),
                                  !.writes = KerningWrites(stored, char),
                                  !.ops = ops59 \o KerningCalls(stored, char)]

\* the counters and the set of returned objects after a _load_font call
CountFindFont(lf, f) ==
    [find_font_calls EXCEPT ![f] = @ + (IF lf.find_font_ran THEN 1 ELSE 0)]

CountFace(lf, f) ==
    [Face_calls EXCEPT ![f] = @ + (IF lf.Face_ran THEN 1 ELSE 0)]

Returned(lf, f) ==
    [returned EXCEPT ![f] = @ \cup (IF lf.raised THEN {} ELSE {lf.ret})]

NoCall == [op |-> "none", g |-> 0, f |-> fA, char |-> None, raised |-> FALSE,
           font_raised |-> FALSE, ret |-> 0, hit |-> FALSE,
           find_font_ran |-> FALSE,
           Face_ran |-> FALSE, writes |-> EmptyMap, ops |-> <<>>]

ThreadsIdle ==
    /\ pc = [t \in 1..NThreads |-> "idle"]
    /\ frame = [t \in 1..NThreads |-> None]

\* no conversion made yet
Pending == [done |-> FALSE, raised |-> FALSE, shape |-> <<0, 0>>, rows |-> <<>>]

NoBitmap ==
    /\ bm_in = [rows |-> 0, width |-> 0, buffer |-> <<>>]
    /\ bm_out = Pending

InitFonts ==
    /\ _font_dict = EmptyMap
    /\ faces = <<>>
    /\ glyphs_dicts = [g \in Dicts |-> EmptyMap]
    /\ ncalls = 0
    /\ last = NoCall
    /\ find_font_calls = [f \in Descriptors |-> 0]
    /\ Face_calls = [f \in Descriptors |-> 0]
    /\ returned = [f \in Descriptors |-> {}]
    /\ fonts_used = [g \in Dicts |-> {}]

\* the other specifications' variables, at rest
KeyIdle ==
    /\ k_in = <<fA, fA>>
    /\ k_out = [done |-> FALSE, keys |-> <<>>]

PlanIdle == plan = <<>>

GlyphThreadsIdle ==
    /\ gpc = <<>>
    /\ gframe = <<>>
    /\ wcount = <<>>
    /\ py3 = TRUE

ShaderIdle ==
    /\ shaders = <<>>
    /\ sh_last = <<>>

ErrorsIdle ==
    /\ pe_in = <<>>
    /\ pe_out = <<>>

Init ==
    /\ InitFonts
    /\ ThreadsIdle
    /\ NoBitmap
    /\ KeyIdle /\ PlanIdle /\ GlyphThreadsIdle /\ ShaderIdle /\ ErrorsIdle

\* a caller runs _load_font(f) to completion
LoadFont ==
    \E f \in Descriptors :
        LET lf == _load_font(_font_dict, faces, f)
        IN  /\ ncalls < MaxCalls
            /\ ncalls' = ncalls + 1
            /\ _font_dict' = lf.font_dict
            /\ faces' = lf.faces
            /\ find_font_calls' = CountFindFont(lf, f)
            /\ Face_calls' = CountFace(lf, f)
            /\ returned' = Returned(lf, f)
            /\ last' = [NoCall EXCEPT !.op = "_load_font", !.f = f,
                                      !.raised = lf.raised,
                                      !.font_raised = lf.raised,
                                      !.ret = lf.ret,
                                      !.hit = KeyOf(f) \in DOMAIN _font_dict,
                                      !.find_font_ran = lf.find_font_ran,
                                      !.Face_ran = lf.Face_ran]
            /\ UNCHANGED <<glyphs_dicts, fonts_used, pc, frame, bm_in, bm_out, aux>>

\* a caller runs _load_glyph(f, char, glyphs_dict) to completion
LoadGlyph ==
    \E g \in Dicts, f \in Descriptors, char \in Chars :
        LET lg == _load_glyph(_font_dict, faces, glyphs_dicts[g], f, char)
        IN  /\ ncalls < MaxCalls
            /\ ncalls' = ncalls + 1
            /\ _font_dict' = lg.font_dict
            /\ faces' = lg.faces
            /\ glyphs_dicts' = [glyphs_dicts EXCEPT ![g] = lg.glyphs_dict]
            /\ find_font_calls' = CountFindFont(lg.lf, f)
            /\ Face_calls' = CountFace(lg.lf, f)
            /\ returned' = Returned(lg.lf, f)
            /\ fonts_used' = [fonts_used EXCEPT ![g] = @ \cup {f}]
            /\ last' = [NoCall EXCEPT !.op = "_load_glyph", !.g = g, !.f = f,
                                      !.char = char, !.raised = lg.raised,
                                      !.font_raised = lg.lf.raised,
                                      !.ret = lg.lf.ret,
                                      !.hit = KeyOf(f) \in DOMAIN _font_dict,
                                      !.find_font_ran = lg.lf.find_font_ran,
                                      !.Face_ran = lg.lf.Face_ran,
                                      !.writes = lg.writes,
                                      !.ops = lg.ops]
            /\ UNCHANGED <<pc, frame, bm_in, bm_out, aux>>

Next ==
    \/ LoadFont
    \/ LoadGlyph

Spec == Init /\ [][Next]_vars

(***************************************************************************)
(* SpecConc: threads inside _load_font.  A thread runs the statements of   *)
(* lines 28-34 one at a time; between two statements any other thread may  *)
(* run.                                                                    *)
(***************************************************************************)
Threads == 1..NThreads

Ret(t, raised, ret) ==
    [NoCall EXCEPT !.op = "_load_font", !.g = t, !.f = frame[t].f,
                   !.raised = raised, !.font_raised = raised, !.ret = ret]

\* a thread calls _load_font(f); line 28 builds the key
Call(t) ==
    /\ pc[t] = "idle"
    /\ ncalls < MaxCalls
    /\ \E f \in Descriptors :
          frame' = [frame EXCEPT ![t] =
                       [f |-> f, key |-> KeyOf(f), fname |-> None, font |-> 0]]
    /\ pc' = [pc EXCEPT ![t] = "L29"]
    /\ ncalls' = ncalls + 1
    /\ UNCHANGED <<_font_dict, faces, glyphs_dicts, last, find_font_calls,
                   Face_calls, returned, fonts_used, bm_in, bm_out, aux>>

\* line 29: if key in _font_dict
Check(t) ==
    /\ pc[t] = "L29"
    /\ pc' = [pc EXCEPT ![t] = IF CacheHit(_font_dict, frame[t].key)
                               THEN "L30" ELSE "L31"]
    /\ UNCHANGED <<_font_dict, faces, glyphs_dicts, frame, ncalls, last,
                   find_font_calls, Face_calls, returned, fonts_used,
                   bm_in, bm_out, aux>>

\* line 30: return _font_dict[key]
ReturnCached(t) ==
    /\ pc[t] = "L30"
    /\ pc' = [pc EXCEPT ![t] = "idle"]
    /\ returned' = [returned EXCEPT ![frame[t].f] =
                       @ \cup {_font_dict[frame[t].key]}]
    /\ last' = Ret(t, FALSE, _font_dict[frame[t].key])
    /\ UNCHANGED <<_font_dict, faces, glyphs_dicts, frame, ncalls,
                   find_font_calls, Face_calls, fonts_used, bm_in, bm_out, aux>>

\* line 31: fname = find_font(face, size, bold, italic)
FindFont(t) ==
    LET f == frame[t].f
        fname == find_font(f.face, f.size, f.bold, f.italic)
    IN  /\ pc[t] = "L31"
        /\ find_font_calls' = [find_font_calls EXCEPT ![f] = @ + 1]
        /\ IF fname = None
           THEN /\ pc' = [pc EXCEPT ![t] = "idle"]
                /\ last' = Ret(t, TRUE, 0)
                /\ UNCHANGED frame
           ELSE /\ pc' = [pc EXCEPT ![t] = "L32"]
                /\ frame' = [frame EXCEPT ![t].fname = fname]
                /\ UNCHANGED last
        /\ UNCHANGED <<_font_dict, faces, glyphs_dicts, ncalls, Face_calls,
                       returned, fonts_used, bm_in, bm_out, aux>>

\* line 32: font = Face(fname)
Construct(t) ==
    LET f == frame[t].f
    IN  /\ pc[t] = "L32"
        /\ Face_calls' = [Face_calls EXCEPT ![f] = @ + 1]
        /\ IF ~FaceOpens(frame[t].fname)
           THEN /\ pc' = [pc EXCEPT ![t] = "idle"]
                /\ last' = Ret(t, TRUE, 0)
                /\ UNCHANGED <<frame, faces>>
           ELSE /\ pc' = [pc EXCEPT ![t] = "L33"]
                /\ faces' = Append(faces, Face(frame[t].fname))
                /\ frame' = [frame EXCEPT ![t].font = Len(faces) + 1]
                /\ UNCHANGED last
        /\ UNCHANGED <<_font_dict, glyphs_dicts, ncalls, find_font_calls,
                       returned, fonts_used, bm_in, bm_out, aux>>

\* line 33: _font_dict[key] = font
Store(t) ==
    /\ pc[t] = "L33"
    /\ _font_dict' = (frame[t].key :> frame[t].font) @@ _font_dict
    /\ pc' = [pc EXCEPT ![t] = "L34"]
    /\ UNCHANGED <<faces, glyphs_dicts, frame, ncalls, last, find_font_calls,
                   Face_calls, returned, fonts_used, bm_in, bm_out, aux>>

\* line 34: return font
Return(t) ==
    /\ pc[t] = "L34"
    /\ pc' = [pc EXCEPT ![t] = "idle"]
    /\ returned' = [returned EXCEPT ![frame[t].f] = @ \cup {frame[t].font}]
    /\ last' = Ret(t, FALSE, frame[t].font)
    /\ UNCHANGED <<_font_dict, faces, glyphs_dicts, frame, ncalls,
                   find_font_calls, Face_calls, fonts_used, bm_in, bm_out, aux>>

NextConc ==
    \E t \in Threads :
        \/ Call(t)
        \/ Check(t)
        \/ ReturnCached(t)
        \/ FindFont(t)
        \/ Construct(t)
        \/ Store(t)
        \/ Return(t)

SpecConc == Init /\ [][NextConc]_vars

(***************************************************************************)
(* SpecBitmap: the bitmap conversion on drawn inputs.  The face reports    *)
(* rows, width and a flat buffer of samples; _load_glyph reads nothing     *)
(* else of the native bitmap.                                              *)
(***************************************************************************)
Samples == {7, 255}

Buffers == UNION {[1..n -> Samples] : n \in 0..MaxBuf}

InitBitmap ==
    /\ InitFonts
    /\ ThreadsIdle
    /\ bm_in \in [rows : 0..MaxRows, width : 0..MaxWidth, buffer : Buffers]
    /\ bm_out = Pending
    /\ KeyIdle /\ PlanIdle /\ GlyphThreadsIdle /\ ShaderIdle /\ ErrorsIdle

\* lines 44-50 on the drawn bitmap
Convert ==
    /\ ~bm_out.done
    /\ bm_out' = [done |-> TRUE] @@ Bitmap(bm_in.buffer, bm_in.rows, bm_in.width)
    /\ UNCHANGED <<_font_dict, faces, glyphs_dicts, pc, frame, ncalls, last,
                   find_font_calls, Face_calls, returned, fonts_used, bm_in, aux>>

SpecBitmap == InitBitmap /\ [][Convert]_vars

(***************************************************************************)
(* SpecGlyphConc: threads inside _load_glyph, each making one call, no two *)
(* of them for the same character.  A thread runs the dictionary and face  *)
(* operations of lines 40-64 one at a time; between two of them any other  *)
(* thread may run.  The call of _load_font at line 40 is taken as one      *)
(* step (SpecConc takes it apart), and so are the reads of the native      *)
(* bitmap in lines 44-47 and the reads of the metrics in lines 52-54.      *)
(* glyphs_dict.items() is a list built at once in Python 2 and a view in   *)
(* Python 3, whose iterator raises RuntimeError from its next step once    *)
(* the dictionary has changed size.                                        *)
(***************************************************************************)
GlyphDescriptors == {fA, fB}

NoFrame == [g |-> 0, f |-> fA, char |-> None, face |-> 0,
            bitmap |-> [shape |-> <<0, 0>>, rows |-> <<>>],
            offset |-> <<0, 0>>, advance |-> <<0, 0>>,
            stored |-> FALSE, size |-> 0, todo |-> {}, other_char |-> None,
            raised |-> FALSE]

InitGlyphConc ==
    /\ InitFonts
    /\ ThreadsIdle
    /\ NoBitmap
    /\ KeyIdle /\ PlanIdle /\ ShaderIdle /\ ErrorsIdle
    /\ gpc = [t \in Threads |-> "idle"]
    /\ gframe = [t \in Threads |-> NoFrame]
    /\ wcount = [e \in Dicts \X Chars \X Chars |-> 0]
    /\ py3 \in BOOLEAN

\* what the threaded steps leave alone
GlyphConcRest ==
    <<pc, frame, last, find_font_calls, Face_calls, returned, fonts_used,
      bm_in, bm_out, k_in, k_out, plan, py3, shaders, sh_last, pe_in, pe_out>>

\* the statement raised: the call ends here
Raise(t) ==
    /\ gpc' = [gpc EXCEPT ![t] = "done"]
    /\ gframe' = [gframe EXCEPT ![t].raised = TRUE]

\* a thread calls _load_glyph(f, char, glyphs_dict)
GCall(t) ==
    /\ gpc[t] = "idle"
    /\ \E g \in Dicts, f \in GlyphDescriptors, char \in Chars :
          /\ \A u \in Threads : gframe[u].char # char
          /\ gframe' = [gframe EXCEPT ![t] =
                           [NoFrame EXCEPT !.g = g, !.f = f, !.char = char]]
    /\ gpc' = [gpc EXCEPT ![t] = "L40"]
    /\ ncalls' = ncalls + 1
    /\ UNCHANGED <<_font_dict, faces, glyphs_dicts, wcount, GlyphConcRest>>

\* line 40: face = _load_font(f['face'], f['size'], f['bold'], f['italic'])
GLoadFont(t) ==
    LET lf == _load_font(_font_dict, faces, gframe[t].f)
    IN  /\ gpc[t] = "L40"
        /\ _font_dict' = lf.font_dict
        /\ faces' = lf.faces
        /\ IF lf.raised
           THEN Raise(t)
           ELSE /\ gpc' = [gpc EXCEPT ![t] = "L41"]
                /\ gframe' = [gframe EXCEPT ![t].face = lf.ret]
        /\ UNCHANGED <<glyphs_dicts, ncalls, wcount, GlyphConcRest>>

\* lines 41 and 59: face.set_char_size(f['size'] * 64)
GSetCharSize(t) ==
    /\ gpc[t] \in {"L41", "L59"}
    /\ faces' = [faces EXCEPT ![gframe[t].face] =
                    set_char_size(@, gframe[t].f.size * 64)]
    /\ gpc' = [gpc EXCEPT ![t] = IF gpc[t] = "L41" THEN "L43" ELSE "L60"]
    /\ UNCHANGED <<_font_dict, glyphs_dicts, gframe, ncalls, wcount,
                   GlyphConcRest>>

\* line 43: face.load_char(char, freetype_flags)
GLoadChar(t) ==
    LET id == gframe[t].face
    IN  /\ gpc[t] = "L43"
        /\ IF ~HasGlyph(faces[id].fname, gframe[t].char)
           THEN /\ Raise(t)
                /\ UNCHANGED faces
           ELSE /\ faces' = [faces EXCEPT ![id] = load_char(@, gframe[t].char)]
                /\ gpc' = [gpc EXCEPT ![t] = "L44"]
                /\ UNCHANGED gframe
        /\ UNCHANGED <<_font_dict, glyphs_dicts, ncalls, wcount, GlyphConcRest>>

\* lines 44-50: the bitmap array, from what the face's glyph slot holds now
GBitmap(t) ==
    LET slot == faces[gframe[t].face].glyph
        bitmap == Bitmap(slot.buffer, slot.rows, slot.width)
    IN  /\ gpc[t] = "L44"
        /\ IF bitmap.raised
           THEN Raise(t)
           ELSE /\ gpc' = [gpc EXCEPT ![t] = "L52"]
                /\ gframe' = [gframe EXCEPT ![t].bitmap =
                                 [shape |-> bitmap.shape, rows |-> bitmap.rows]]
        /\ UNCHANGED <<_font_dict, faces, glyphs_dicts, ncalls, wcount,
                       GlyphConcRest>>

\* lines 52-54: left, top and advance, from what the glyph slot holds now
GMetrics(t) ==
    LET slot == faces[gframe[t].face].glyph
    IN  /\ gpc[t] = "L52"
        /\ gframe' = [gframe EXCEPT
                         ![t].offset = <<slot.bitmap_left, slot.bitmap_top>>,
                         ![t].advance = Div64(slot.advance_x)]
        /\ gpc' = [gpc EXCEPT ![t] = "L57"]
        /\ UNCHANGED <<_font_dict, faces, glyphs_dicts, ncalls, wcount,
                       GlyphConcRest>>

\* lines 55-57: glyphs_dict[char] = dict(char=char, ..., kerning={})
GStore(t) ==
    LET fr == gframe[t]
        glyph == [char |-> fr.char, offset |-> fr.offset, bitmap |-> fr.bitmap,
                  advance |-> fr.advance, kerning |-> EmptyMap]
    IN  /\ gpc[t] = "L57"
        /\ glyphs_dicts' = [glyphs_dicts EXCEPT ![fr.g] = (fr.char :> glyph) @@ @]
        /\ gframe' = [gframe EXCEPT ![t].stored = TRUE]
        /\ gpc' = [gpc EXCEPT ![t] = "L59"]
        /\ UNCHANGED <<_font_dict, faces, ncalls, wcount, GlyphConcRest>>

\* line 60: glyphs_dict.items() and the iterator over it
GItems(t) ==
    LET gd == glyphs_dicts[gframe[t].g]
    IN  /\ gpc[t] = "L60"
        /\ gframe' = [gframe EXCEPT ![t].todo = DOMAIN gd,
                                    ![t].size = Cardinality(DOMAIN gd)]
        /\ gpc' = [gpc EXCEPT ![t] = "next"]
        /\ UNCHANGED <<_font_dict, faces, glyphs_dicts, ncalls, wcount,
                       GlyphConcRest>>

\* line 60: the iterator's next step: the next (other_char, other_glyph),
\* in the dictionary's order, which is any order; or the end of the loop
GNext(t) ==
    LET fr == gframe[t]
    IN  /\ gpc[t] = "next"
        /\ IF py3 /\ Cardinality(DOMAIN glyphs_dicts[fr.g]) # fr.size
           THEN Raise(t)
           ELSE IF fr.todo = {}
           THEN /\ gpc' = [gpc EXCEPT ![t] = "done"]
                /\ UNCHANGED gframe
           ELSE /\ \E o \in fr.todo :
                      gframe' = [gframe EXCEPT ![t].other_char = o,
                                               ![t].todo = fr.todo \ {o}]
                /\ gpc' = [gpc EXCEPT ![t] = "L61"]
        /\ UNCHANGED <<_font_dict, faces, glyphs_dicts, ncalls, wcount,
                       GlyphConcRest>>

\* lines 61-62: glyph['kerning'][other_char] = get_kerning(other_char, char)
GKernGlyph(t) ==
    LET fr == gframe[t]
        k == Div64(get_kerning(faces[fr.face], fr.other_char, fr.char))
    IN  /\ gpc[t] = "L61"
        /\ glyphs_dicts' = [glyphs_dicts EXCEPT ![fr.g][fr.char].kerning =
                               (fr.other_char :> k) @@ @]
        /\ wcount' = [wcount EXCEPT ![<<fr.g, fr.char, fr.other_char>>] = @ + 1]
        /\ gpc' = [gpc EXCEPT ![t] = "L63"]
        /\ UNCHANGED <<_font_dict, faces, gframe, ncalls, GlyphConcRest>>

\* lines 63-64: other_glyph['kerning'][char] = get_kerning(char, other_char)
GKernOther(t) ==
    LET fr == gframe[t]
        k == Div64(get_kerning(faces[fr.face], fr.char, fr.other_char))
    IN  /\ gpc[t] = "L63"
        /\ glyphs_dicts' = [glyphs_dicts EXCEPT ![fr.g][fr.other_char].kerning =
                               (fr.char :> k) @@ @]
        /\ wcount' = [wcount EXCEPT ![<<fr.g, fr.other_char, fr.char>>] = @ + 1]
        /\ gpc' = [gpc EXCEPT ![t] = "next"]
        /\ UNCHANGED <<_font_dict, faces, gframe, ncalls, GlyphConcRest>>

NextGlyphConc ==
    \E t \in Threads :
        \/ GCall(t)
        \/ GLoadFont(t)
        \/ GSetCharSize(t)
        \/ GLoadChar(t)
        \/ GBitmap(t)
        \/ GMetrics(t)
        \/ GStore(t)
        \/ GItems(t)
        \/ GNext(t)
        \/ GKernGlyph(t)
        \/ GKernOther(t)

SpecGlyphConc == InitGlyphConc /\ [][NextGlyphConc]_vars

(***************************************************************************)
(* SpecOrder: one set of distinct characters inserted in two orders, with  *)
(* one descriptor, into the initially empty dictionaries 1 and 2 by        *)
(* _load_glyph calls made one after another.                               *)
(***************************************************************************)
\* the sequences of distinct characters
Orders ==
    UNION {{s \in [1..n -> Chars] : \A i, j \in 1..n : i # j => s[i] # s[j]} :
              n \in 0..Cardinality(Chars)}

Range(s) == {s[i] : i \in 1..Len(s)}

InitOrder ==
    /\ InitFonts
    /\ ThreadsIdle
    /\ NoBitmap
    /\ KeyIdle /\ GlyphThreadsIdle /\ ShaderIdle /\ ErrorsIdle
    /\ \E f \in GlyphDescriptors, o1 \in Orders, o2 \in Orders :
          /\ Range(o1) = Range(o2)
          /\ plan = [f |-> f, chars |-> Range(o1), todo |-> <<o1, o2>>]

\* the next _load_glyph call of order g, into dictionary g
Insert(g) ==
    LET char == Head(plan.todo[g])
        lg == _load_glyph(_font_dict, faces, glyphs_dicts[g], plan.f, char)
    IN  /\ plan.todo[g] # <<>>
        /\ plan' = [plan EXCEPT !.todo[g] = Tail(@)]
        /\ ncalls' = ncalls + 1
        /\ _font_dict' = lg.font_dict
        /\ faces' = lg.faces
        /\ glyphs_dicts' = [glyphs_dicts EXCEPT ![g] = lg.glyphs_dict]
        /\ fonts_used' = [fonts_used EXCEPT ![g] = @ \cup {plan.f}]
        /\ UNCHANGED <<pc, frame, last, find_font_calls, Face_calls, returned,
                       bm_in, bm_out, k_in, k_out, gpc, gframe, wcount, py3,
                       shaders, sh_last, pe_in, pe_out>>

NextOrder == \E g \in Dicts : Insert(g)

SpecOrder == InitOrder /\ [][NextOrder]_vars

(***************************************************************************)
(* Strings of the shader module, written as sequences of characters; a     *)
(* value that may be None is a record telling whether it is.               *)
(***************************************************************************)
NoneStr == [is_none |-> TRUE, text |-> <<>>]

Str(s) == [is_none |-> FALSE, text |-> s]

RECURSIVE lstrip(_, _)
lstrip(s, chars) ==
    IF s # <<>> /\ Head(s) \in chars THEN lstrip(Tail(s), chars) ELSE s

RECURSIVE rstrip(_, _)
rstrip(s, chars) ==
    IF s # <<>> /\ s[Len(s)] \in chars
    THEN rstrip(SubSeq(s, 1, Len(s) - 1), chars) ELSE s

\* s.strip(chars)
strip(s, chars) == rstrip(lstrip(s, chars), chars)

\* the characters s.strip() removes
Whitespace == {" ", "\t", "\n", "\r"}

RECURSIVE split(_, _)
\* s.split(sep), sep one character
split(s, sep) ==
    IF \A i \in 1..Len(s) : s[i] # sep THEN <<s>>
    ELSE LET i == CHOOSE k \in 1..Len(s) :
                      s[k] = sep /\ \A j \in 1..(k - 1) : s[j] # sep
         IN  <<SubSeq(s, 1, i - 1)>> \o split(SubSeq(s, i + 1, Len(s)), sep)

(***************************************************************************)
(* SpecShader: set_source and _enable called in any order on a vertex and  *)
(* a fragment shader.  The GL driver compiles a given source with the same *)
(* outcome every time: it accepts SrcOk, reports a compile status of false *)
(* for SrcStatus, and glCompileShader raises for SrcRaise.  What _enable   *)
(* prints on a failed compile is left out.                                 *)
(***************************************************************************)
SrcOk == <<"/", "/", " ", "o", "k", "\n", "v">>

SrcStatus == <<"b", "\n", "!">>

SrcRaise == <<"\t", "*", "r">>

Sources == {NoneStr, Str(<<>>), Str(SrcOk), Str(SrcStatus), Str(SrcRaise)}

ShaderIds == {1, 2}

\* the outcome of glShaderSource, glCompileShader and the status query
glCompileShader(source) ==
    CASE source = SrcOk -> "ok"
      [] source = SrcStatus -> "status_false"
      [] OTHER -> "raises"

\* gl.glCreateShader(type): a shader name not in use
glCreateShader(objs) ==
    1 + Cardinality({i \in DOMAIN objs : objs[i]._handle > 0})

\* set_source(source), lines 49-56
set_source(self, source) ==
    [self EXCEPT
        !._source = source,
        !._compiled = 0,
        !._description =
            IF source.is_none THEN NoneStr
            ELSE Str(strip(split(source.text, "\n")[1], {" ", "\t", "/", "*"}))]

\* BaseShader.__init__(type, source), lines 34-39
BaseShader(type, source) ==
    set_source([_type |-> type, _handle |-> 0, _compiled |-> 0,
                _description |-> NoneStr, _source |-> NoneStr], source)

\* not self._source
SourceEmpty(self) == self._source.is_none \/ self._source.text = <<>>

\* _enable(), lines 68-102, on object i of objs: the object it leaves and
\* whether it raised
_enable(objs, i) ==
    LET created == IF objs[i]._handle <= 0
                   THEN [objs[i] EXCEPT !._handle = glCreateShader(objs)]
                   ELSE objs[i]
        tried == [created EXCEPT !._compiled = 1]
        outcome == glCompileShader(created._source.text)
    IN  IF SourceEmpty(created)
        THEN [self |-> [created EXCEPT !._compiled = 2], raised |-> FALSE,
              exc |-> None]
        ELSE IF created._compiled # 0
        THEN [self |-> created, raised |-> FALSE, exc |-> None]
        ELSE IF outcome = "raises"
        THEN [self |-> tried, raised |-> TRUE, exc |-> "Exception"]
        ELSE IF outcome = "status_false"
        THEN [self |-> tried, raised |-> TRUE, exc |-> "RuntimeError"]
        ELSE [self |-> [tried EXCEPT !._compiled = 2], raised |-> FALSE,
              exc |-> None]

InitShader ==
    /\ InitFonts
    /\ ThreadsIdle
    /\ NoBitmap
    /\ KeyIdle /\ PlanIdle /\ GlyphThreadsIdle /\ ErrorsIdle
    /\ \E s1 \in Sources, s2 \in Sources :
          shaders = <<BaseShader("GL_VERTEX_SHADER", s1),
                      BaseShader("GL_FRAGMENT_SHADER", s2)>>
    /\ sh_last = [op |-> "__init__", id |-> 0, raised |-> FALSE, exc |-> None]

ShaderRest ==
    <<_font_dict, faces, glyphs_dicts, pc, frame, ncalls, last,
      find_font_calls, Face_calls, returned, fonts_used, bm_in, bm_out,
      k_in, k_out, plan, gpc, gframe, wcount, py3, pe_in, pe_out>>

\* a caller runs shader.set_source(source)
SetSource ==
    \E i \in ShaderIds, source \in Sources :
        /\ shaders' = [shaders EXCEPT ![i] = set_source(@, source)]
        /\ sh_last' = [op |-> "set_source", id |-> i, raised |-> FALSE,
                       exc |-> None]
        /\ UNCHANGED ShaderRest

\* a caller runs shader._enable()
Enable ==
    \E i \in ShaderIds :
        LET en == _enable(shaders, i)
        IN  /\ shaders' = [shaders EXCEPT ![i] = en.self]
            /\ sh_last' = [op |-> "_enable", id |-> i, raised |-> en.raised,
                           exc |-> en.exc]
            /\ UNCHANGED ShaderRest

NextShader ==
    \/ SetSource
    \/ Enable

SpecShader == InitShader /\ [][NextShader]_vars

(***************************************************************************)
(* SpecErrors: parse_shader_errors on a drawn error buffer and source.     *)
(* The buffer holds one error in one of the drivers' formats, with a line  *)
(* number, or in no known format; it comes as text or as bytes, alone or   *)
(* between blank lines.  The printed lines are the model's output.         *)
(***************************************************************************)
MaxLine == 4

DigitChars == {"0", "1", "2", "3", "4", "5", "6", "7", "8", "9"}

RECURSIVE TakeWhile(_, _)
\* the longest prefix of s made of characters of chars
TakeWhile(s, chars) ==
    IF s # <<>> /\ Head(s) \in chars
    THEN <<Head(s)>> \o TakeWhile(Tail(s), chars) ELSE <<>>

Drop(s, n) == SubSeq(s, n + 1, Len(s))

StartsWith(s, p) == Len(s) >= Len(p) /\ SubSeq(s, 1, Len(p)) = p

RECURSIVE int(_)
\* int(s) for a string of digits
int(s) ==
    IF s = <<>> THEN 0
    ELSE 10 * int(SubSeq(s, 1, Len(s) - 1))
         + (CHOOSE d \in 0..9 : StrNat(d) = <<s[Len(s)]>>)

\* the pieces the three patterns are made of: \d+ in a group, literal
\* text, \s*, \s and a final (.*)
D == [kind |-> "(\\d+)", text |-> <<>>]

Lit(text) == [kind |-> "literal", text |-> text]

WsStar == [kind |-> "\\s*", text |-> <<>>]

Ws == [kind |-> "\\s", text |-> <<>>]

Rest == [kind |-> "(.*)", text |-> <<>>]

NoMatch == [ok |-> FALSE, groups |-> <<>>]

RECURSIVE re_match(_, _)
\* re.match(pattern, s): whether a prefix of s matches, and the groups.
\* In these patterns every repetition is followed by a character it cannot
\* match, so the greedy match is the only one.
re_match(pattern, s) ==
    IF pattern = <<>> THEN [ok |-> TRUE, groups |-> <<>>]
    ELSE
    LET p == Head(pattern)
        digits == TakeWhile(s, DigitChars)
        after == CASE p.kind = "(\\d+)" -> Drop(s, Len(digits))
                   [] p.kind = "literal" -> Drop(s, Len(p.text))
                   [] p.kind = "\\s*" -> lstrip(s, Whitespace)
                   [] p.kind = "\\s" -> Drop(s, 1)
                   [] OTHER -> <<>>
        here == CASE p.kind = "(\\d+)" -> digits # <<>>
                  [] p.kind = "literal" -> StartsWith(s, p.text)
                  [] p.kind = "\\s*" -> TRUE
                  [] p.kind = "\\s" -> s # <<>> /\ Head(s) \in Whitespace
                  [] OTHER -> TRUE
        group == CASE p.kind = "(\\d+)" -> <<digits>>
                   [] p.kind = "(.*)" ->
                        <<TakeWhile(s, {s[i] : i \in 1..Len(s)} \ {"\n"})>>
                   [] OTHER -> <<>>
        tail == re_match(Tail(pattern), after)
    IN  IF here /\ tail.ok
        THEN [ok |-> TRUE, groups |-> group \o tail.groups]
        ELSE NoMatch

\* r'(\d+)\((\d+)\)\s*:\s(.*)'
Nvidia == <<D, Lit(<<"(">>), D, Lit(<<")">>), WsStar, Lit(<<":">>), Ws, Rest>>

\* r'ERROR:\s(\d+):(\d+):\s(.*)'
ATI ==
    <<Lit(<<"E", "R", "R", "O", "R", ":">>), Ws, D, Lit(<<":">>), D,
      Lit(<<":">>), Ws, Rest>>

\* r'(\d+):(\d+)\((\d+)\):\s(.*)'
Nouveau ==
    <<D, Lit(<<":">>), D, Lit(<<"(">>), D, Lit(<<")", ":">>), Ws, Rest>>

\* parse_shader_error(error): (line number or None, description)
parse_shader_error(error) ==
    LET nvidia == re_match(Nvidia, error)
        ati == re_match(ATI, error)
        nouveau == re_match(Nouveau, error)
        found(n, text) == [none |-> FALSE, linenr |-> int(n), error |-> text]
    IN  IF nvidia.ok THEN found(nvidia.groups[2], nvidia.groups[3])
        ELSE IF ati.ok THEN found(ati.groups[2], ati.groups[3])
        ELSE IF nouveau.ok THEN found(nouveau.groups[2], nouveau.groups[4])
        ELSE [none |-> TRUE, linenr |-> 0, error |-> error]

\* errors.decode('utf-8', 'replace'): a byte that is no UTF-8 becomes the
\* replacement character
decode(data) ==
    [i \in 1..Len(data) |-> IF data[i] = "xFF" THEN "uFFFD" ELSE data[i]]

\* lines 195-196: [line.strip() for line in source.split('\n')]
SourceLines(source) ==
    LET raw == split(source, "\n")
    IN  [i \in 1..Len(raw) |-> strip(raw[i], Whitespace)]

Spaces(n) == [i \in 1..n |-> " "]

RECURSIVE ReportErrors(_, _)
\* lines 198-210: the loop over errors.split('\n'); what it prints
ReportErrors(errs, source) ==
    IF errs = <<>> THEN <<>>
    ELSE
    LET error == strip(Head(errs), Whitespace)
        parsed == parse_shader_error(error)
        lines == SourceLines(source.text)
        shown == IF parsed.linenr > 0 /\ parsed.linenr < Len(lines)
                 THEN <<Spaces(8) \o lines[parsed.linenr]>>
                 ELSE <<>>
        printed ==
            IF parsed.none \/ source.is_none
            THEN <<Spaces(4) \o parsed.error>>
            ELSE <<Spaces(4) \o <<"o", "n", " ", "l", "i", "n", "e", " ">>
                       \o StrInt(parsed.linenr) \o <<":", " ">>
                       \o parsed.error>> \o shown
    IN  (IF error = <<>> THEN <<>> ELSE printed)
        \o ReportErrors(Tail(errs), source)

\* parse_shader_errors(errors, source): the lines printed
parse_shader_errors(errors, source) ==
    LET text == IF errors.bytes THEN decode(errors.data) ELSE errors.data
    IN  ReportErrors(split(text, "\n"), source)

\* an error message in a driver's format, as in the docstring of
\* parse_shader_error
ErrorFormats == {"nvidia", "ati", "nouveau", "other"}

ErrorLine(format, n, desc) ==
    CASE format = "nvidia" ->
            <<"0", "(">> \o StrNat(n) \o <<")", ":", " ">> \o desc
      [] format = "ati" ->
            <<"E", "R", "R", "O", "R", ":", " ", "0", ":">> \o StrNat(n)
                \o <<":", " ">> \o desc
      [] format = "nouveau" ->
            <<"0", ":">> \o StrNat(n) \o <<"(", "1", ")", ":", " ">> \o desc
      [] OTHER -> <<"?", " ">> \o desc

ErrorSources ==
    {NoneStr, Str(<<"a">>), Str(<<" ", "a", "\n", "b", " ">>),
     Str(<<"a", "\n", "\t", "b", "\n", "c">>), Str(<<"a", "\n">>)}

InitErrors ==
    /\ InitFonts
    /\ ThreadsIdle
    /\ NoBitmap
    /\ KeyIdle /\ PlanIdle /\ GlyphThreadsIdle /\ ShaderIdle
    /\ \E format \in ErrorFormats, n \in 0..MaxLine, bytes \in BOOLEAN,
          blank \in BOOLEAN, source \in ErrorSources :
          LET desc == IF bytes THEN <<"e", "xFF">> ELSE <<"e", "r", "r">>
              line == ErrorLine(format, n, desc)
          IN  pe_in = [format |-> format, n |-> n, source |-> source,
                       errors |-> [bytes |-> bytes,
                                   data |-> IF blank
                                            THEN <<"\n", " ">> \o line
                                                     \o <<" ", "\n">>
                                            ELSE line]]
    /\ pe_out = [done |-> FALSE, printed |-> <<>>]

\* a caller runs parse_shader_errors(errors, source)
ParseShaderErrors ==
    /\ ~pe_out.done
    /\ pe_out' = [done |-> TRUE,
                  printed |-> parse_shader_errors(pe_in.errors, pe_in.source)]
    /\ UNCHANGED <<_font_dict, faces, glyphs_dicts, pc, frame, ncalls, last,
                   find_font_calls, Face_calls, returned, fonts_used, bm_in,
                   bm_out, k_in, k_out, plan, gpc, gframe, wcount, py3,
                   shaders, sh_last, pe_in>>

SpecErrors == InitErrors /\ [][ParseShaderErrors]_vars

(***************************************************************************)
(* Properties                                                              *)
(***************************************************************************)
\* the face a descriptor resolves to, at the size _load_glyph sets on it
Rasterizer(f) ==
    set_char_size(Face(find_font(f.face, f.size, f.bold, f.italic)),
                  f.size * 64)

\* the kerning entries <<x, y>> a dictionary holds: gd[x]['kerning'][y]
Entries(gd) ==
    {e \in (DOMAIN gd) \X Chars : e[2] \in DOMAIN gd[e[1]].kerning}

\* the step is a completed _load_glyph call
GlyphCall == ncalls' # ncalls /\ last'.op = "_load_glyph"

\* C1 (kerning completeness): after any sequence of _load_glyph calls made
\* one after another, for every two distinct characters a and b of a glyph
\* dictionary both glyphs_dict[a]['kerning'][b] and
\* glyphs_dict[b]['kerning'][a] exist, also when the face reports zero
\* kerning for the pair.
C1_KerningComplete ==
    \A g \in Dicts : \A a, b \in DOMAIN glyphs_dicts[g] :
        a # b => b \in DOMAIN glyphs_dicts[g][a].kerning

\* three distinct characters loaded with one descriptor into one dictionary,
\* among them a pair with zero kerning, stored as an explicit zero
C1_Witness ==
    \E g \in Dicts :
        /\ fonts_used[g] = {fA}
        /\ DOMAIN glyphs_dicts[g] = Chars
        /\ get_kerning(Rasterizer(fA), "T", "V") = 0
        /\ glyphs_dicts[g]["V"].kerning["T"] = Div64(0)

\* C2 (kerning direction): in a dictionary filled with one descriptor f, for
\* two different characters c and o, glyphs_dict[c]['kerning'][o] is the
\* face's kerning x for the ordered pair (o, c) divided by 64, and (with the
\* roles exchanged) glyphs_dict[o]['kerning'][c] is that of (c, o): the two
\* directions are never swapped.
C2_KerningDirection ==
    \A g \in Dicts : \A f \in Descriptors :
        fonts_used[g] = {f} =>
            \A c, o \in DOMAIN glyphs_dicts[g] :
                c # o => glyphs_dicts[g][c].kerning[o]
                             = Div64(get_kerning(Rasterizer(f), o, c))

\* two glyphs whose kerning differs with the direction
C2_Witness ==
    \E g \in Dicts :
        /\ fonts_used[g] = {fA}
        /\ {"A", "V"} \subseteq DOMAIN glyphs_dicts[g]
        /\ glyphs_dicts[g]["A"].kerning["V"] # glyphs_dicts[g]["V"].kerning["A"]
        /\ glyphs_dicts[g]["V"].kerning["A"]
               = Div64(get_kerning(Rasterizer(fA), "A", "V"))

\* C3 (cache identity): over calls made one after another, once _load_font
\* has returned a Face for a descriptor, every later call with that
\* descriptor returns the same object and runs neither find_font nor Face():
\* both ran at most once for a descriptor that loaded.
C3_CacheIdentity ==
    /\ \A f \in Descriptors :
          returned[f] # {} =>
              /\ Cardinality(returned[f]) = 1
              /\ find_font_calls[f] <= 1
              /\ Face_calls[f] <= 1
    /\ (last.op # "none" /\ last.hit) =>
          /\ ~last.font_raised
          /\ ~last.find_font_ran
          /\ ~last.Face_ran
          /\ returned[last.f] = {last.ret}

\* a second _load_font call for a descriptor, answered from the cache
C3_Witness ==
    /\ last.op = "_load_font"
    /\ last.hit
    /\ ncalls >= 2
    /\ find_font_calls[last.f] = 1
    /\ Face_calls[last.f] = 1
    /\ last.ret = _font_dict[KeyOf(last.f)]

\* C4 (single-flight loading): with threads calling _load_font concurrently
\* on an empty cache, find_font and Face() run at most once for a descriptor
\* that loads, and all callers receive the same Face object.
C4_SingleFlight ==
    \A f \in Descriptors :
        Loads(f) =>
            /\ find_font_calls[f] <= 1
            /\ Face_calls[f] <= 1
            /\ Cardinality(returned[f]) <= 1

\* C5 (duplicate insertion rejected): a _load_glyph call for a character
\* that is already a key of glyphs_dict raises and leaves every glyph
\* dictionary as it was.
C5_DuplicateRejected ==
    [][(GlyphCall /\ last'.char \in DOMAIN glyphs_dicts[last'.g]) =>
          (last'.raised /\ glyphs_dicts' = glyphs_dicts)]_vars

\* C6 (kerning written once): a _load_glyph call assigns an entry
\* glyphs_dict[x]['kerning'][y] of two different characters x and y once,
\* and only if the dictionary did not hold that entry before the call.
C6_KerningWrittenOnce ==
    [][GlyphCall =>
          \A e \in DOMAIN last'.writes :
              e[1] # e[2] =>
                  /\ last'.writes[e] = 1
                  /\ e \notin Entries(glyphs_dicts[last'.g])]_vars

\* C7 (the sweep excludes the new glyph): after a _load_glyph call no glyph's
\* kerning map has an entry for its own character, and inserting a glyph
\* into a dictionary of n other glyphs adds exactly 2n kerning entries.
C7_SweepExcludesSelf ==
    [][(GlyphCall /\ ~last'.raised) =>
          LET pre == glyphs_dicts[last'.g]
              post == glyphs_dicts'[last'.g]
              n == Cardinality(DOMAIN pre \ {last'.char})
          IN  /\ \A x \in DOMAIN post : x \notin DOMAIN post[x].kerning
              /\ last'.char \notin DOMAIN pre =>
                    Cardinality(Entries(post)) = Cardinality(Entries(pre)) + 2 * n]_vars

\* C8 (no partial state on failed rasterization): when load_char fails for
\* the requested character, _load_glyph raises and every glyph dictionary is
\* as before the call: no key added, no kerning map changed.
C8_NoPartialGlyph ==
    [][(GlyphCall /\ Loads(last'.f)
          /\ ~HasGlyph(Rasterizer(last'.f).fname, last'.char)) =>
          (last'.raised /\ glyphs_dicts' = glyphs_dicts)]_vars

\* load_char failed on a dictionary that already holds glyphs
C8_Witness ==
    /\ last.op = "_load_glyph"
    /\ last.raised
    /\ Loads(last.f)
    /\ ~HasGlyph(Rasterizer(last.f).fname, last.char)
    /\ glyphs_dicts[last.g] # EmptyMap
    /\ last.char \notin DOMAIN glyphs_dicts[last.g]

\* C9 (a missing font leaves the cache clean): when find_font or Face()
\* fails for a descriptor, the call raises and _font_dict holds no entry
\* under the descriptor's key, so every later call with it runs find_font
\* again.
C9_FailedLoadNotCached ==
    /\ \A f \in Descriptors :
          ~Loads(f) => KeyOf(f) \notin DOMAIN _font_dict
    /\ (last.op # "none" /\ ~Loads(last.f)) =>
          /\ last.raised
          /\ last.font_raised
          /\ last.find_font_ran
          /\ ~last.hit

\* find_font failed twice for one descriptor, Face() twice for another one
C9_Witness ==
    \/ /\ find_font_calls[fN] = 2
       /\ last.f = fN
       /\ last.raised
       /\ Face_calls[fX] = 1
    \/ /\ Face_calls[fX] = 2
       /\ last.f = fX
       /\ last.raised
       /\ find_font_calls[fN] = 1

\* the native bitmap is rows of stride samples, stride >= width
Padded(in, stride) ==
    /\ stride >= in.width
    /\ Len(in.buffer) = in.rows * stride

\* C10 (bitmap shape): for a native bitmap of rows >= 1 rows of stride
\* samples, stride >= width, the stored bitmap has exactly rows rows of
\* exactly width samples, and row r holds the first width samples of row r
\* of the native buffer: the stride - width padding samples are dropped.
C10_BitmapShape ==
    \A stride \in 0..MaxBuf :
        (bm_out.done /\ bm_in.rows >= 1 /\ Padded(bm_in, stride)) =>
            /\ ~bm_out.raised
            /\ bm_out.shape = <<bm_in.rows, bm_in.width>>
            /\ Len(bm_out.rows) = bm_in.rows
            /\ \A r \in 1..bm_in.rows :
                  /\ Len(bm_out.rows[r]) = bm_in.width
                  /\ \A c \in 1..bm_in.width :
                        bm_out.rows[r][c] = bm_in.buffer[(r - 1) * stride + c]

\* two rows of two samples, of which one is the glyph and one is padding
C10_Witness ==
    /\ bm_out.done
    /\ bm_in.rows = 2
    /\ bm_in.width = 1
    /\ Padded(bm_in, 2)
    /\ bm_out.rows = <<<<bm_in.buffer[1]>>, <<bm_in.buffer[3]>>>>

\* C11 (zero-height glyph): whenever the face reports rows == 0, whatever the
\* buffer holds and whatever width is reported, the conversion does not
\* raise and the bitmap stored has zero rows.
C11_ZeroHeight ==
    (bm_out.done /\ bm_in.rows = 0) =>
        /\ ~bm_out.raised
        /\ bm_out.shape[1] = 0
        /\ bm_out.rows = <<>>

(***************************************************************************)
(* SpecKey: the cache key of line 28 built for two drawn descriptors.      *)
(* Family names may contain '-', sizes may be negative.                    *)
(***************************************************************************)
KeyFaces == {<<"a">>, <<"a", "-">>, <<"a", "-", "1">>}

KeySizes == {-1, 1, 12}

KeyDescriptors ==
    [face : KeyFaces, size : KeySizes, bold : BOOLEAN, italic : BOOLEAN]

InitKey ==
    /\ InitFonts
    /\ ThreadsIdle
    /\ NoBitmap
    /\ k_in \in KeyDescriptors \X KeyDescriptors
    /\ k_out = [done |-> FALSE, keys |-> <<>>]
    /\ PlanIdle /\ GlyphThreadsIdle /\ ShaderIdle /\ ErrorsIdle

\* line 28, for each of the two descriptors
BuildKeys ==
    /\ ~k_out.done
    /\ k_out' = [done |-> TRUE, keys |-> <<KeyOf(k_in[1]), KeyOf(k_in[2])>>]
    /\ UNCHANGED <<_font_dict, faces, glyphs_dicts, pc, frame, ncalls, last,
                   find_font_calls, Face_calls, returned, fonts_used,
                   bm_in, bm_out, k_in, plan, gpc, gframe, wcount, py3,
                   shaders, sh_last, pe_in, pe_out>>

SpecKey == InitKey /\ [][BuildKeys]_vars

\* C12 (the cache key is injective on the descriptor): two descriptors that
\* differ in at least one of face, size, bold and italic never get the same
\* key, so two _load_font calls for them never share a cache entry.
C12_KeyInjective ==
    (k_out.done /\ k_in[1] # k_in[2]) => k_out.keys[1] # k_out.keys[2]

\* C13 (the font cache never evicts or replaces): over calls of _load_font
\* and _load_glyph made one after another, the key set of _font_dict only
\* grows and the Face object stored under a key never changes.
C13_NeverEvicts ==
    [][/\ DOMAIN _font_dict \subseteq DOMAIN _font_dict'
       /\ \A k \in DOMAIN _font_dict : _font_dict'[k] = _font_dict[k]]_vars

\* two fonts cached, both still there after a further call
C13_Witness ==
    /\ DOMAIN _font_dict = {KeyOf(fA), KeyOf(fB)}
    /\ _font_dict[KeyOf(fA)] # _font_dict[KeyOf(fB)]
    /\ ncalls = 3
    /\ last.hit

\* C14 (concurrent insertions into one dictionary): when two threads have
\* run _load_glyph for different characters a and b on the same glyphs_dict
\* with the same descriptor, both calls have completed without raising,
\* glyphs_dict[a]['kerning'][b] and glyphs_dict[b]['kerning'][a] exist, and
\* neither of the two entries was assigned more than once.
C14_ConcurrentInsertions ==
    \A t, u \in Threads :
        LET a == gframe[t].char
            b == gframe[u].char
            g == gframe[t].g
        IN  (/\ t # u
             /\ gpc[t] = "done" /\ gpc[u] = "done"
             /\ gframe[u].g = g
             /\ gframe[t].f = gframe[u].f
             /\ HasGlyph(Rasterizer(gframe[t].f).fname, a)
             /\ HasGlyph(Rasterizer(gframe[t].f).fname, b)) =>
                /\ ~gframe[t].raised
                /\ ~gframe[u].raised
                /\ b \in DOMAIN glyphs_dicts[g][a].kerning
                /\ a \in DOMAIN glyphs_dicts[g][b].kerning
                /\ wcount[<<g, a, b>>] <= 1
                /\ wcount[<<g, b, a>>] <= 1

\* the glyph a _load_glyph call made on its own stores for char
SequentialGlyph(f, char) ==
    _load_glyph(EmptyMap, <<>>, EmptyMap, f, char).glyphs_dict[char]

\* C15 (glyph record integrity on a shared face): the glyph a call has
\* stored under its character c has char = c and the bitmap, offset and
\* advance the face produces for load_char(c), also while other threads
\* run _load_glyph for other characters, with the same descriptor or not,
\* on the same dictionary or not.
C15_GlyphIntegrity ==
    \A t \in Threads :
        gframe[t].stored =>
            LET glyph == glyphs_dicts[gframe[t].g][gframe[t].char]
                own == SequentialGlyph(gframe[t].f, gframe[t].char)
            IN  /\ glyph.char = gframe[t].char
                /\ glyph.bitmap = own.bitmap
                /\ glyph.offset = own.offset
                /\ glyph.advance = own.advance

\* C16 (insertion order does not matter): when the same set of distinct
\* characters has been inserted in two orders, with the same descriptor,
\* into two initially empty dictionaries, the two dictionaries are equal:
\* same keys, same glyph metrics, same kerning maps.
C16_OrderIrrelevant ==
    plan.todo = <<<<>>, <<>>>> => glyphs_dicts[1] = glyphs_dicts[2]

\* three glyphs inserted in two different orders
C16_Witness ==
    /\ plan.todo = <<<<>>, <<>>>>
    /\ plan.f = fA
    /\ DOMAIN glyphs_dicts[1] = Chars
    /\ DOMAIN glyphs_dicts[2] = Chars
    /\ ncalls = 2 * Cardinality(Chars)
    /\ glyphs_dicts[1]["A"].kerning["V"] # glyphs_dicts[1]["V"].kerning["A"]

\* C17 (frame of an insertion): a _load_glyph call leaves every other glyph
\* dictionary as it was; in the dictionary passed to it it adds at most the
\* key of its character, leaves char, bitmap, offset and advance of every
\* glyph already present as they were and adds only kerning entries of its
\* character; in _font_dict it adds at most the key of its descriptor.
C17_InsertionFrame ==
    [][GlyphCall =>
          LET g == last'.g
              char == last'.char
              pre == glyphs_dicts[g]
              post == glyphs_dicts'[g]
          IN  /\ \A h \in Dicts \ {g} : glyphs_dicts'[h] = glyphs_dicts[h]
              /\ DOMAIN pre \subseteq DOMAIN post
              /\ DOMAIN post \ DOMAIN pre \subseteq {char}
              /\ \A c \in DOMAIN pre :
                    /\ post[c].char = pre[c].char
                    /\ post[c].bitmap = pre[c].bitmap
                    /\ post[c].offset = pre[c].offset
                    /\ post[c].advance = pre[c].advance
              /\ Entries(pre) \subseteq Entries(post)
              /\ \A e \in Entries(post) \ Entries(pre) : char \in {e[1], e[2]}
              /\ DOMAIN _font_dict \subseteq DOMAIN _font_dict'
              /\ DOMAIN _font_dict' \ DOMAIN _font_dict \subseteq {KeyOf(last'.f)}
              /\ \A k \in DOMAIN _font_dict : _font_dict'[k] = _font_dict[k]]_vars

\* C18 (size is asserted before use): the operations a _load_glyph call
\* makes on the face begin with set_char_size(size * 64) followed directly
\* by load_char(char, flags) with FT_LOAD_RENDER, FT_LOAD_NO_HINTING and
\* FT_LOAD_NO_AUTOHINT set, and set_char_size(size * 64) is called again
\* after load_char and before the call's first get_kerning.
C18_SizeBeforeUse ==
    (last.op = "_load_glyph" /\ ~last.font_raised) =>
        LET ops == last.ops
            size == [op |-> "set_char_size", size |-> last.f.size * 64]
        IN  /\ Len(ops) >= 2
            /\ ops[1] = size
            /\ ops[2].op = "load_char"
            /\ ops[2].char = last.char
            /\ {"FT_LOAD_RENDER", "FT_LOAD_NO_HINTING", "FT_LOAD_NO_AUTOHINT"}
                   \subseteq ops[2].flags
            /\ \A i \in 1..Len(ops) :
                  ops[i].op = "get_kerning" =>
                      \E j \in 3..(i - 1) :
                          /\ ops[j] = size
                          /\ \A k \in 3..j : ops[k].op # "get_kerning"

\* a call that went through to the kerning loop over two glyphs
C18_Witness ==
    /\ last.op = "_load_glyph"
    /\ ~last.raised
    /\ Len(last.ops) = 7
    /\ last.ops[3].op = "set_char_size"
    /\ last.ops[4].op = "get_kerning"

\* C19 (shader compile state): when _enable has returned without raising
\* on a shader whose source is not empty, the shader's source has been
\* compiled successfully: _compiled = 2, never 1.
C19_CompiledOnReturn ==
    (sh_last.op = "_enable" /\ ~sh_last.raised
        /\ ~SourceEmpty(shaders[sh_last.id])) =>
            shaders[sh_last.id]._compiled = 2

\* C20 (error reporting shows the offending line): for an error in a known
\* format with line number n and a source of L lines, parse_shader_errors
\* prints, after the error, source line n (lines[n-1], stripped) for every
\* n with 1 <= n <= L, the last line included, and prints no source line
\* when n < 1 or n > L.
C20_OffendingLineShown ==
    (pe_out.done /\ pe_in.format # "other" /\ ~pe_in.source.is_none) =>
        LET lines == SourceLines(pe_in.source.text)
            n == pe_in.n
        IN  IF 1 <= n /\ n <= Len(lines)
            THEN /\ Len(pe_out.printed) = 2
                 /\ pe_out.printed[2] = Spaces(8) \o lines[n]
            ELSE Len(pe_out.printed) = 1

=============================================================================
